---- MODULE Spec2Model ----
(***************************************************************************)
(* Relationship routes of the API server,                                  *)
(*   src/api/routes/users/@me/relationships.ts                             *)
(*                                                                         *)
(*   PUT  /:id  -> updateRelationship  (send or accept a friend request,   *)
(*                                      block)                             *)
(*   DELETE /:id -> router.delete      (remove a friend or a request,      *)
(*                                      unblock)                           *)
(*                                                                         *)
(* A handler is translated as an operator from the relationships table it  *)
(* reads to its outcome: the table it leaves, the status it answers, the   *)
(* events it emits and the number of rows it saved or deleted.             *)
(*                                                                         *)
(*   Spec       handlers run one at a time from the empty table; the       *)
(*              answer and the events of the last handler are kept.        *)
(*   SpecStore  the same handlers, any number of them, with the table as   *)
(*              the only thing that changes.                               *)
(*   SpecAny    one handler run on a table in which the rows of a pair are *)
(*              in any combination.                                        *)
(*   SpecPublish  the handlers with an emitEvent call that may reject.     *)
(*   SpecRace   requests handled concurrently, a step per load and per     *)
(*              awaited save or delete.                                    *)
(*   SpecCap    the same steps for the friend requests of one user and     *)
(*              their acceptances.                                         *)
(*                                                                         *)
(* Registration route, src/unnamed/part_000                                *)
(*                                                                         *)
(*   POST /auth/register -> router.post                                    *)
(*                                                                         *)
(*   SpecRegister  registrations handled one at a time, a step per check.  *)
(***************************************************************************)
EXTENDS Integers, Sequences, FiniteSets, TLC

\* Config.get().limits.user.maxFriends
maxFriends == 2

\* number of requests served in a run of Spec
MaxOps == 5

\* the accounts; four is the least population in which one user could hold
\* more than maxFriends = 2 friends
Users == {"u1", "u2", "u3", "u4"}

\* absence of a row: Array.prototype.find returns undefined
undefined == "undefined"

\* RelationshipType enum members
RelationshipType == {"outgoing", "incoming", "friends", "blocked"}

\* ordered pairs (from_id, to_id) a Relationship row is keyed by
Pairs == Users \X Users

\* the errors the handlers throw
SELF_ADD == "You can't add yourself as a friend"
SELF_REMOVE == "You can't remove yourself as a friend"
NOT_FRIENDS == "You are not friends with the user"
ALREADY_BLOCKED == "You already blocked the user"
MAXIMUM_FRIENDS == "MAXIMUM_FRIENDS"
BLOCKED_YOU == "The user blocked you"
ALREADY_FRIENDS == "You are already friends with the user"
ALREADY_SENT == "You already sent a friend request"
UNBLOCK_FIRST == "Unblock the user before sending a friend request"
NO_CONTENT == "204"

VARIABLES
    relationships,  \* the relationships table: (from_id, to_id) -> type, or undefined
    response,       \* the answer of the last handler: handler, caller, target, status
    events,         \* the emitEvent calls of the last handler, in call order
    writes,         \* the number of save() and delete() calls of the last handler
    served,         \* the number of requests served so far
    users,          \* the accounts User.register has created, in creation order
    body,           \* req.body of the registration being handled
    register,       \* Config.get().register: the settings the handler has tested so far
    security,       \* Config.get().security: the settings the handler has tested so far
    awaited,        \* what verifyCaptcha, isProxy and Invite.joinGuild resolved to
    pc,             \* the statement of router.post the registration is at
    reply,          \* what router.post answered, or threw
    user,           \* the index in users of the account this registration created
    inbox,          \* the relationship requests that have arrived and not started
    tasks           \* the requests being handled concurrently, and the handled ones

\* the state of the relationship routes
relVars == <<relationships, response, events, writes, served>>

\* the state of the registration route
regVars == <<users, body, register, security, awaited, pc, reply, user>>

\* the requests handled as concurrent tasks
taskVars == <<inbox, tasks>>

vars == <<relationships, response, events, writes, served,
          users, body, register, security, awaited, pc, reply, user,
          inbox, tasks>>

\* user.relationships.find((x) => x.to_id === id)
find(rels, from, to) == rels[<<from, to>>]

\* user.relationships.length
length(rels, from) == Cardinality({to \in Users : rels[<<from, to>>] # undefined})

\* Relationship.toPublicRelationship() of the row from -> to with the type it has at the call
toPublicRelationship(from, to, type) == [from_id |-> from, to_id |-> to, type |-> type]

\* emitEvent({event, user_id, data})
emitEvent(event, user_id, data, should_notify) ==
    [event |-> event, user_id |-> user_id, data |-> data, should_notify |-> should_notify]

\* relationship.save()
save(rels, from, to, type) == [rels EXCEPT ![<<from, to>>] = type]

\* Relationship.delete({ id })
delete(rels, from, to) == [rels EXCEPT ![<<from, to>>] = undefined]

\* throw new HTTPError(...): the handler ends with what it had saved so far
throw(rels, error, saved) ==
    [relationships |-> rels, status |-> error, events |-> <<>>, writes |-> saved]

\* res.sendStatus(204)
sendStatus(rels, emitted, saved) ==
    [relationships |-> rels, status |-> NO_CONTENT, events |-> emitted, writes |-> saved]

\* pruneTarget with the target's row never deleted
pruneTargetNever(friendRequest) == FALSE

\* pruneTarget with the test for a blocked row dropped
pruneTargetAny(friendRequest) == friendRequest # undefined

\* friendRequest && friendRequest.type !== RelationshipType.blocked, in the block branch
pruneTarget(friendRequest) == friendRequest # undefined /\ friendRequest # "blocked"

\* the events of the block branch: REMOVE to the target for its deleted row, then ADD
\* to the caller for its blocked row
blockEvents(user_id, id, friendRequest) ==
    (IF pruneTarget(friendRequest)
     THEN <<emitEvent("RELATIONSHIP_REMOVE", id,
                      toPublicRelationship(id, user_id, friendRequest), FALSE)>>
     ELSE <<>>)
    \o <<emitEvent("RELATIONSHIP_ADD", user_id,
                   toPublicRelationship(user_id, id, "blocked"), FALSE)>>

\* blockBranch with the friend limit applied to blocking as well
blockBranchLimited(rels, user_id, id) ==
    LET relationship == find(rels, user_id, id)
        friendRequest == find(rels, id, user_id)
        saved == save(rels, user_id, id, "blocked")
    IN  IF relationship = "blocked"
        THEN throw(rels, ALREADY_BLOCKED, 0)
        ELSE IF length(rels, user_id) >= maxFriends
        THEN throw(rels, MAXIMUM_FRIENDS, 0)
        ELSE IF pruneTarget(friendRequest)
        THEN sendStatus(delete(saved, id, user_id), blockEvents(user_id, id, friendRequest), 2)
        ELSE sendStatus(saved, blockEvents(user_id, id, friendRequest), 1)

\* the type === RelationshipType.blocked branch of updateRelationship
blockBranch(rels, user_id, id) ==
    LET relationship == find(rels, user_id, id)
        friendRequest == find(rels, id, user_id)
        \* the caller's row is updated in place, or inserted when there is none
        saved == save(rels, user_id, id, "blocked")
    IN  IF relationship = "blocked"
        THEN throw(rels, ALREADY_BLOCKED, 0)
        ELSE IF pruneTarget(friendRequest)
        THEN sendStatus(delete(saved, id, user_id), blockEvents(user_id, id, friendRequest), 2)
        ELSE sendStatus(saved, blockEvents(user_id, id, friendRequest), 1)

\* limitReached one row early
limitReachedEarly(rels, user_id) == length(rels, user_id) >= maxFriends - 1

\* limitReached with the test dropped
limitReachedNever(rels, user_id) == FALSE

\* user.relationships.length >= maxFriends
limitReached(rels, user_id) == length(rels, user_id) >= maxFriends

\* friendEvents with the caller's row sent to the target as well
friendEventsCounterpart(user_id, id, outgoing_type, incoming_type) ==
    <<emitEvent("RELATIONSHIP_ADD", user_id,
                toPublicRelationship(user_id, id, outgoing_type), FALSE),
      emitEvent("RELATIONSHIP_ADD", id,
                toPublicRelationship(user_id, id, outgoing_type), TRUE)>>

\* the two RELATIONSHIP_ADD events of a friend request or an acceptance: the caller gets
\* outgoing_relationship, the target incoming_relationship with should_notify
friendEvents(user_id, id, outgoing_type, incoming_type) ==
    <<emitEvent("RELATIONSHIP_ADD", user_id,
                toPublicRelationship(user_id, id, outgoing_type), FALSE),
      emitEvent("RELATIONSHIP_ADD", id,
                toPublicRelationship(id, user_id, incoming_type), TRUE)>>

\* friendBranch with the accepted row saved as soon as it is turned into friends,
\* before the caller's own row is looked at
friendBranchSaveFirst(rels, user_id, id) ==
    LET relationship == find(rels, user_id, id)
        friendRequest == find(rels, id, user_id)
        incoming_type == IF friendRequest # undefined THEN "friends" ELSE "incoming"
        outgoing_type == IF relationship # undefined THEN "friends" ELSE "outgoing"
        accepted == IF friendRequest # undefined THEN save(rels, id, user_id, "friends") ELSE rels
        early == IF friendRequest # undefined THEN 1 ELSE 0
    IN  IF limitReached(rels, user_id)
        THEN throw(rels, MAXIMUM_FRIENDS, 0)
        ELSE IF friendRequest = "blocked"
        THEN throw(rels, BLOCKED_YOU, 0)
        ELSE IF friendRequest = "friends"
        THEN throw(rels, ALREADY_FRIENDS, 0)
        ELSE IF relationship = "outgoing"
        THEN throw(accepted, ALREADY_SENT, early)
        ELSE IF relationship = "blocked"
        THEN throw(accepted, UNBLOCK_FIRST, early)
        ELSE IF relationship = "friends"
        THEN throw(accepted, ALREADY_FRIENDS, early)
        ELSE sendStatus(save(save(rels, id, user_id, incoming_type), user_id, id, outgoing_type),
                        friendEvents(user_id, id, outgoing_type, incoming_type), 2)

\* friendBranch with the caller's own row tested before the target's row
friendBranchOwnFirst(rels, user_id, id) ==
    LET relationship == find(rels, user_id, id)
        friendRequest == find(rels, id, user_id)
        incoming_type == IF friendRequest # undefined THEN "friends" ELSE "incoming"
        outgoing_type == IF relationship # undefined THEN "friends" ELSE "outgoing"
    IN  IF limitReached(rels, user_id)
        THEN throw(rels, MAXIMUM_FRIENDS, 0)
        ELSE IF relationship = "outgoing"
        THEN throw(rels, ALREADY_SENT, 0)
        ELSE IF relationship = "blocked"
        THEN throw(rels, UNBLOCK_FIRST, 0)
        ELSE IF relationship = "friends"
        THEN throw(rels, ALREADY_FRIENDS, 0)
        ELSE IF friendRequest = "blocked"
        THEN throw(rels, BLOCKED_YOU, 0)
        ELSE IF friendRequest = "friends"
        THEN throw(rels, ALREADY_FRIENDS, 0)
        ELSE sendStatus(save(save(rels, id, user_id, incoming_type), user_id, id, outgoing_type),
                        friendEvents(user_id, id, outgoing_type, incoming_type), 2)

\* friendBranch with incoming_relationship never saved
friendBranchOneSided(rels, user_id, id) ==
    LET relationship == find(rels, user_id, id)
        friendRequest == find(rels, id, user_id)
        incoming_type == IF friendRequest # undefined THEN "friends" ELSE "incoming"
        outgoing_type == IF relationship # undefined THEN "friends" ELSE "outgoing"
    IN  IF limitReached(rels, user_id)
        THEN throw(rels, MAXIMUM_FRIENDS, 0)
        ELSE IF friendRequest = "blocked"
        THEN throw(rels, BLOCKED_YOU, 0)
        ELSE IF friendRequest = "friends"
        THEN throw(rels, ALREADY_FRIENDS, 0)
        ELSE IF relationship = "outgoing"
        THEN throw(rels, ALREADY_SENT, 0)
        ELSE IF relationship = "blocked"
        THEN throw(rels, UNBLOCK_FIRST, 0)
        ELSE IF relationship = "friends"
        THEN throw(rels, ALREADY_FRIENDS, 0)
        ELSE sendStatus(save(rels, user_id, id, outgoing_type),
                        friendEvents(user_id, id, outgoing_type, incoming_type), 1)

\* the rest of updateRelationship: send or accept a friend request
friendBranch(rels, user_id, id) ==
    LET relationship == find(rels, user_id, id)
        friendRequest == find(rels, id, user_id)
        \* incoming_relationship is the row id -> user_id: the target's existing row
        \* turned into friends, or a new incoming row
        incoming_type == IF friendRequest # undefined THEN "friends" ELSE "incoming"
        \* outgoing_relationship is the row user_id -> id: the caller's existing row
        \* turned into friends, or a new outgoing row
        outgoing_type == IF relationship # undefined THEN "friends" ELSE "outgoing"
    IN  IF limitReached(rels, user_id)
        THEN throw(rels, MAXIMUM_FRIENDS, 0)
        ELSE IF friendRequest = "blocked"
        THEN throw(rels, BLOCKED_YOU, 0)
        ELSE IF friendRequest = "friends"
        THEN throw(rels, ALREADY_FRIENDS, 0)
        ELSE IF relationship = "outgoing"
        THEN throw(rels, ALREADY_SENT, 0)
        ELSE IF relationship = "blocked"
        THEN throw(rels, UNBLOCK_FIRST, 0)
        ELSE IF relationship = "friends"
        THEN throw(rels, ALREADY_FRIENDS, 0)
        ELSE sendStatus(save(save(rels, id, user_id, incoming_type), user_id, id, outgoing_type),
                        friendEvents(user_id, id, outgoing_type, incoming_type), 2)

\* async function updateRelationship(req, res, friend, type)
updateRelationship(rels, user_id, id, type) ==
    IF id = user_id
    THEN throw(rels, SELF_ADD, 0)
    ELSE IF type = "blocked"
    THEN blockBranch(rels, user_id, id)
    ELSE friendBranch(rels, user_id, id)

\* removeBoth with the other side's row never deleted
removeBothNever(friendRequest) == FALSE

\* removeBoth deleting the other side's row only when it is a friends row
removeBothFriends(friendRequest) == friendRequest = "friends"

\* friendRequest && friendRequest.type !== RelationshipType.blocked, in router.delete
removeBoth(friendRequest) == friendRequest # undefined /\ friendRequest # "blocked"

\* routerDelete with the unblock deleting the other side's row as well
routerDeleteUnblockBoth(rels, user_id, id) ==
    LET relationship == find(rels, user_id, id)
        friendRequest == find(rels, id, user_id)
        removeOwn == emitEvent("RELATIONSHIP_REMOVE", user_id,
                               toPublicRelationship(user_id, id, relationship), FALSE)
        removeTheirs == emitEvent("RELATIONSHIP_REMOVE", id,
                                  toPublicRelationship(id, user_id, friendRequest), FALSE)
    IN  IF id = user_id
        THEN throw(rels, SELF_REMOVE, 0)
        ELSE IF relationship = undefined
        THEN throw(rels, NOT_FRIENDS, 0)
        ELSE IF friendRequest # undefined
        THEN sendStatus(delete(delete(rels, id, user_id), user_id, id),
                        <<removeTheirs, removeOwn>>, 2)
        ELSE sendStatus(delete(rels, user_id, id), <<removeOwn>>, 1)

\* router.delete("/:id")
routerDelete(rels, user_id, id) ==
    LET relationship == find(rels, user_id, id)
        friendRequest == find(rels, id, user_id)
        removeOwn == emitEvent("RELATIONSHIP_REMOVE", user_id,
                               toPublicRelationship(user_id, id, relationship), FALSE)
        removeTheirs == emitEvent("RELATIONSHIP_REMOVE", id,
                                  toPublicRelationship(id, user_id, friendRequest), FALSE)
    IN  IF id = user_id
        THEN throw(rels, SELF_REMOVE, 0)
        ELSE IF relationship = undefined
        THEN throw(rels, NOT_FRIENDS, 0)
        ELSE IF relationship = "blocked"
        THEN sendStatus(delete(rels, user_id, id), <<removeOwn>>, 1)
        ELSE IF removeBoth(friendRequest)
        THEN sendStatus(delete(delete(rels, id, user_id), user_id, id),
                        <<removeTheirs, removeOwn>>, 2)
        ELSE sendStatus(delete(rels, user_id, id), <<removeOwn>>, 1)

\* the handler a request is routed to: router.delete, or updateRelationship with the
\* type of the body
Outcome(handler, rels, user_id, id) ==
    IF handler = "delete"
    THEN routerDelete(rels, user_id, id)
    ELSE updateRelationship(rels, user_id, id, IF handler = "block" THEN "blocked" ELSE "friends")

\* one request served: the handler's outcome becomes the table, the answer and the events
Serve(handler, user_id, id, outcome) ==
    /\ served < MaxOps
    /\ served' = served + 1
    /\ relationships' = outcome.relationships
    /\ response' = [handler |-> handler, user_id |-> user_id, id |-> id,
                    status |-> outcome.status]
    /\ events' = outcome.events
    /\ writes' = outcome.writes
    /\ UNCHANGED <<regVars, taskVars>>

\* requestOrAccept intent: PUT /:id, type defaulting to friends
RequestOrAccept ==
    \E user_id \in Users, id \in Users :
        Serve("friend", user_id, id, updateRelationship(relationships, user_id, id, "friends"))

\* block intent: PUT /:id with type blocked
Block ==
    \E user_id \in Users, id \in Users :
        Serve("block", user_id, id, updateRelationship(relationships, user_id, id, "blocked"))

\* remove intent: DELETE /:id
Remove ==
    \E user_id \in Users, id \in Users :
        Serve("delete", user_id, id, routerDelete(relationships, user_id, id))

\* no handler has run yet
NoResponse == [handler |-> "none", user_id |-> "none", id |-> "none", status |-> "none"]

\* the empty relationships table
EmptyStore == [p \in Pairs |-> undefined]

\* no setting tested, no call awaited
NoSettings == <<>>

\* no request started
NoTasks == <<>>

\* no registration received yet
NoBody == [consent |-> FALSE, email |-> undefined, password |-> undefined,
           date_of_birth |-> undefined, invite |-> undefined,
           captcha_key |-> undefined, fingerprint |-> undefined]

\* router.post has not answered
NoReply == [kind |-> "none", field |-> "none", code |-> "none"]

\* the registration route before its first request
InitRegister ==
    /\ users = <<>>
    /\ body = NoBody
    /\ register = NoSettings
    /\ security = NoSettings
    /\ awaited = NoSettings
    /\ pc = "idle"
    /\ reply = NoReply
    /\ user = 0

Init ==
    /\ relationships = EmptyStore
    /\ response = NoResponse
    /\ events = <<>>
    /\ writes = 0
    /\ served = 0
    /\ InitRegister
    /\ inbox = {}
    /\ tasks = NoTasks

Next == RequestOrAccept \/ Block \/ Remove

Spec == Init /\ [][Next]_vars

(***************************************************************************)
(* SpecStore: the table under any number of handlers.                      *)
(***************************************************************************)

\* the rows a handler leaves become the table
Stored(outcome) ==
    /\ relationships' = outcome.relationships
    /\ UNCHANGED <<response, events, writes, served>>
    /\ UNCHANGED <<regVars, taskVars>>

RequestOrAcceptStored ==
    \E user_id \in Users, id \in Users :
        Stored(updateRelationship(relationships, user_id, id, "friends"))

BlockStored ==
    \E user_id \in Users, id \in Users :
        Stored(updateRelationship(relationships, user_id, id, "blocked"))

RemoveStored ==
    \E user_id \in Users, id \in Users :
        Stored(routerDelete(relationships, user_id, id))

NextStore == RequestOrAcceptStored \/ BlockStored \/ RemoveStored

SpecStore == Init /\ [][NextStore]_vars

(***************************************************************************)
(* SpecAny: one handler run on a table in which the two rows of a pair and *)
(* the caller's other rows are in any combination, as handlers that        *)
(* overlapped or were interrupted between their two writes can leave them. *)
(***************************************************************************)

\* a row's type, or no row
Kind == RelationshipType \cup {undefined}

InitAny ==
    /\ \E a \in Users, b \in Users :
         /\ a # b
         /\ \E own \in [Users \ {a} -> Kind], back \in Kind :
              relationships =
                  [p \in Pairs |->
                      IF p[1] = a /\ p[2] # a THEN own[p[2]]
                      ELSE IF p = <<b, a>> THEN back
                      ELSE undefined]
    /\ response = NoResponse
    /\ events = <<>>
    /\ writes = 0
    /\ served = MaxOps - 1
    /\ InitRegister
    /\ inbox = {}
    /\ tasks = NoTasks

SpecAny == InitAny /\ [][Next]_vars

(***************************************************************************)
(* SpecPublish: the handlers with an event publisher that may reject.      *)
(* No handler catches a rejected emitEvent: the rejection ends the handler *)
(* where it is awaited.                                                    *)
(***************************************************************************)

\* the answer when a handler's promise rejects with the publisher's error
PUBLISH_FAILED == "500"

\* the emitEvent calls that were published when call number fail rejected: calls that
\* are arguments of one Promise.all are all made, a call awaited on its own ends the
\* handler before the calls after it
published(handler, emitted, fail) ==
    IF handler = "friend"
    THEN SelectSeq(emitted, LAMBDA e : e # emitted[fail])
    ELSE SubSeq(emitted, 1, fail - 1)

\* the table when call number fail rejected: the save() and delete() calls made before
\* the rejection are carried out; in router.delete the rejection of the first of two
\* calls comes before the caller's own row is deleted
persisted(handler, rels, user_id, id, outcome, fail) ==
    IF handler = "delete" /\ Len(outcome.events) = 2 /\ fail = 1
    THEN delete(rels, id, user_id)
    ELSE outcome.relationships

\* the outcome of a handler whose emitEvent call number fail rejects (0: none does)
rejected(handler, rels, user_id, id, outcome, fail) ==
    IF fail = 0
    THEN outcome
    ELSE [relationships |-> persisted(handler, rels, user_id, id, outcome, fail),
          status |-> PUBLISH_FAILED,
          events |-> published(handler, outcome.events, fail),
          writes |-> IF handler = "delete" /\ Len(outcome.events) = 2 /\ fail = 1
                     THEN 1 ELSE outcome.writes]

\* one request served by a publisher that may reject any one emitEvent call of the
\* handler; a handler has up to three outcomes here, and the runs are one request
\* shorter than those of Spec
ServeRejecting(handler, user_id, id, outcome) ==
    /\ served < MaxOps - 1
    /\ \E fail \in 0..Len(outcome.events) :
           Serve(handler, user_id, id,
                 rejected(handler, relationships, user_id, id, outcome, fail))

RequestOrAcceptPublishing ==
    \E user_id \in Users, id \in Users :
        ServeRejecting("friend", user_id, id,
                       updateRelationship(relationships, user_id, id, "friends"))

BlockPublishing ==
    \E user_id \in Users, id \in Users :
        ServeRejecting("block", user_id, id,
                       updateRelationship(relationships, user_id, id, "blocked"))

RemovePublishing ==
    \E user_id \in Users, id \in Users :
        ServeRejecting("delete", user_id, id, routerDelete(relationships, user_id, id))

NextPublish == RequestOrAcceptPublishing \/ BlockPublishing \/ RemovePublishing

SpecPublish == Init /\ [][NextPublish]_vars


(***************************************************************************)
(* SpecRegister: the registration route, POST /auth/register.              *)
(*                                                                         *)
(* router.post is followed statement by statement. The payload is whole    *)
(* when the handler starts; a setting of Config.get() is drawn where the   *)
(* first statement tests it and kept in register or security, and what an  *)
(* awaited service resolves to is drawn at the call and kept in awaited.   *)
(***************************************************************************)

\* accounts created in a run of SpecRegister
MaxAccounts == 2

\* new Date() at the request, as a yyyymmdd number
today == 20261105

\* the values of register.dateOfBirth.minimum, in years: unset, or set
minimumAges == {0, 13}

\* the payloads: RegisterSchema, with the fields router.post reads
RegisterSchema ==
    [consent : BOOLEAN,
     email : {undefined, "ab@gmail.com", "a.b+tag@gmail.com"},
     password : {undefined, "wtp9gep9gw"},
     date_of_birth : {undefined, "2000-04-04", "2020-04-04"},
     invite : {undefined, "invite"},
     captcha_key : {undefined, "captcha_key"},
     fingerprint : {"805826570869932034", "805826570869932035"}]

\* adjustEmail: the dots and the +alias of a gmail.com address are dropped
adjustEmail(email) ==
    IF email = "a.b+tag@gmail.com" THEN "ab@gmail.com" ELSE email

\* new Date(date_of_birth) as a yyyymmdd number; 0 stands for Invalid Date
Date(date_of_birth) ==
    IF date_of_birth = "2000-04-04" THEN 20000404
    ELSE IF date_of_birth = "2020-04-04" THEN 20200404
    ELSE 0

\* minimum.setFullYear(minimum.getFullYear() - register.dateOfBirth.minimum)
setFullYear(date, years) == date - years * 10000

\* body.date_of_birth > minimum: a comparison with Invalid Date is false
younger(date, minimum) == date # 0 /\ date > minimum

\* bcrypt.hash(body.password, 12)
hash(password) == "$2b$12$" \o password

\* a setting or a resolved call, kept under its name
read(settings, key, value) == (key :> value) @@ settings

\* FieldErrors({ field: { code } })
FieldErrors(field, code) == [kind |-> "FieldErrors", field |-> field, code |-> code]

\* res.status(400).json({ captcha_key, captcha_sitekey, captcha_service })
captchaChallenge(codes) == [kind |-> "captcha", field |-> "captcha_key", code |-> codes]

\* new HTTPError(message), and the rejection of an awaited call
HTTPError(message) == [kind |-> "HTTPError", field |-> "none", code |-> message]

\* res.json({ token })
token == [kind |-> "token", field |-> "token", code |-> "token"]

\* User.findOne({ where: { fingerprints: body.fingerprint } })
findOneFingerprint(accounts, fingerprint) ==
    \E i \in 1..Len(accounts) : accounts[i].fingerprint = fingerprint

\* User.findOne({ where: { email: email } })
findOneEmail(accounts, email) ==
    \E i \in 1..Len(accounts) : accounts[i].email = email

\* the row User.register({ ...body, req }) creates
account(payload) ==
    [email |-> adjustEmail(payload.email), fingerprint |-> payload.fingerprint]

\* a statement that tests and falls through to the statement at next, or throws error
checked(at, error, next) ==
    /\ pc = at
    /\ IF error = NoReply
       THEN pc' = next /\ reply' = reply
       ELSE pc' = "done" /\ reply' = error
    /\ UNCHANGED <<users, user>>
    /\ UNCHANGED <<relVars, taskVars>>

\* a request arrives: route({ body: "RegisterSchema" }) hands the payload to the handler
Receive ==
    /\ pc \in {"idle", "done"}
    /\ Len(users) < MaxAccounts
    /\ body' \in RegisterSchema
    /\ register' = NoSettings
    /\ security' = NoSettings
    /\ awaited' = NoSettings
    /\ reply' = NoReply
    /\ user' = 0
    /\ pc' = "allowNewRegistration"
    /\ UNCHANGED users
    /\ UNCHANGED <<relVars, taskVars>>


\* check 1: if (!register.allowNewRegistration) throw REGISTRATION_DISABLED
AllowNewRegistration ==
    /\ \E allowNewRegistration \in BOOLEAN :
         /\ register' = read(register, "allowNewRegistration", allowNewRegistration)
         /\ checked("allowNewRegistration",
                    IF ~allowNewRegistration
                    THEN FieldErrors("email", "REGISTRATION_DISABLED") ELSE NoReply,
                    "consent")
    /\ UNCHANGED <<body, security, awaited>>

\* check 2: if (!body.consent) throw CONSENT_REQUIRED
Consent ==
    /\ checked("consent",
               IF ~body.consent THEN FieldErrors("consent", "CONSENT_REQUIRED") ELSE NoReply,
               "disabled")
    /\ UNCHANGED <<body, register, security, awaited>>

\* check 3: if (register.disabled) throw DISABLED
Disabled ==
    /\ \E disabled \in BOOLEAN :
         /\ register' = read(register, "disabled", disabled)
         /\ checked("disabled",
                    IF disabled THEN FieldErrors("email", "DISABLED") ELSE NoReply,
                    "allowGuests")
    /\ UNCHANGED <<body, security, awaited>>

\* check 4: if (!register.allowGuests) throw GUESTS_DISABLED
AllowGuests ==
    /\ \E allowGuests \in BOOLEAN :
         /\ register' = read(register, "allowGuests", allowGuests)
         /\ checked("allowGuests",
                    IF ~allowGuests THEN FieldErrors("email", "GUESTS_DISABLED") ELSE NoReply,
                    "requireCaptcha")
    /\ UNCHANGED <<body, security, awaited>>

\* check 5: if (register.requireCaptcha && security.captcha.enabled): the challenge
\* when the key is missing, verifyCaptcha and its error codes when it fails
RequireCaptcha ==
    /\ \E requireCaptcha \in BOOLEAN, enabled \in BOOLEAN, success \in BOOLEAN :
         /\ register' = read(register, "requireCaptcha", requireCaptcha)
         /\ security' = IF requireCaptcha
                        THEN read(security, "captcha", [enabled |-> enabled])
                        ELSE security
         /\ ~requireCaptcha => ~enabled
         /\ awaited' = IF requireCaptcha /\ enabled /\ body.captcha_key # undefined
                       THEN read(awaited, "verifyCaptcha", [success |-> success])
                       ELSE awaited
         /\ ~(requireCaptcha /\ enabled /\ body.captcha_key # undefined) => ~success
         /\ checked("requireCaptcha",
                    IF requireCaptcha /\ enabled
                    THEN IF body.captcha_key = undefined
                         THEN captchaChallenge("captcha-required")
                         ELSE IF ~success
                              THEN captchaChallenge("error-codes")
                              ELSE NoReply
                    ELSE NoReply,
                    "allowMultipleAccounts")
    /\ UNCHANGED body

\* check 6: if (!register.allowMultipleAccounts) and an account has the fingerprint,
\* throw EMAIL_ALREADY_REGISTERED
AllowMultipleAccounts ==
    /\ \E allowMultipleAccounts \in BOOLEAN :
         /\ register' = read(register, "allowMultipleAccounts", allowMultipleAccounts)
         /\ checked("allowMultipleAccounts",
                    IF ~allowMultipleAccounts /\ findOneFingerprint(users, body.fingerprint)
                    THEN FieldErrors("email", "EMAIL_ALREADY_REGISTERED") ELSE NoReply,
                    "blockProxies")
    /\ UNCHANGED <<body, security, awaited>>

\* check 7: if (register.blockProxies) and isProxy(await IPAnalysis(ip)), throw HTTPError
BlockProxies ==
    /\ \E blockProxies \in BOOLEAN, isProxy \in BOOLEAN :
         /\ register' = read(register, "blockProxies", blockProxies)
         /\ awaited' = IF blockProxies THEN read(awaited, "isProxy", isProxy) ELSE awaited
         /\ ~blockProxies => ~isProxy
         /\ checked("blockProxies",
                    IF blockProxies /\ isProxy
                    THEN HTTPError("Your IP is blocked from registration") ELSE NoReply,
                    "email")
    /\ UNCHANGED <<body, security>>

\* checks 8 and 9: if (email) and an account has the adjusted email, throw
\* EMAIL_ALREADY_REGISTERED; else if (register.email.required) throw BASE_TYPE_REQUIRED
Email ==
    /\ \E required \in BOOLEAN :
         LET email == adjustEmail(body.email)
         IN  /\ register' = IF email = undefined
                            THEN read(register, "email", [required |-> required])
                            ELSE register
             /\ email # undefined => ~required
             /\ checked("email",
                        IF email # undefined
                        THEN IF findOneEmail(users, email)
                             THEN FieldErrors("email", "EMAIL_ALREADY_REGISTERED")
                             ELSE NoReply
                        ELSE IF required
                             THEN FieldErrors("email", "BASE_TYPE_REQUIRED")
                             ELSE NoReply,
                        "dateOfBirth")
    /\ UNCHANGED <<body, security, awaited>>


\* check 10: if (register.dateOfBirth.required && !body.date_of_birth && body.password)
\* throw BASE_TYPE_REQUIRED; else if (required && minimum) and the date of birth is
\* later than today minus minimum years, throw DATE_OF_BIRTH_UNDERAGE
DateOfBirth ==
    /\ \E required \in BOOLEAN, minimum \in minimumAges :
         /\ register' = read(register, "dateOfBirth",
                             [required |-> required, minimum |-> minimum])
         /\ ~required => minimum = 0
         /\ checked("dateOfBirth",
                    IF /\ required
                       /\ body.date_of_birth = undefined
                       /\ body.password # undefined
                    THEN FieldErrors("date_of_birth", "BASE_TYPE_REQUIRED")
                    ELSE IF /\ required
                            /\ minimum # 0
                            /\ younger(Date(body.date_of_birth),
                                       setFullYear(today, minimum))
                         THEN FieldErrors("date_of_birth", "DATE_OF_BIRTH_UNDERAGE")
                         ELSE NoReply,
                    "password")
    /\ UNCHANGED <<body, security, awaited>>

\* check 11: if (body.password) the password is replaced by its hash;
\* else if (register.password.required) throw BASE_TYPE_REQUIRED
Password ==
    /\ \E required \in BOOLEAN :
         /\ register' = IF body.password = undefined
                        THEN read(register, "password", [required |-> required])
                        ELSE register
         /\ body.password # undefined => ~required
         /\ body' = IF body.password # undefined
                    THEN [body EXCEPT !.password = hash(body.password)]
                    ELSE body
         /\ checked("password",
                    IF body.password = undefined /\ required
                    THEN FieldErrors("password", "BASE_TYPE_REQUIRED") ELSE NoReply,
                    "requireInvite")
    /\ UNCHANGED <<security, awaited>>

\* !register.email: register.email is the settings object, and an object is truthy
\* whatever it holds
falsy(object) == FALSE

\* check 12: if (!body.invite && (register.requireInvite ||
\* (register.guestsRequireInvite && !register.email))) throw INVITE_ONLY
RequireInvite ==
    /\ \E requireInvite \in BOOLEAN, guestsRequireInvite \in BOOLEAN :
         /\ register' =
                IF body.invite # undefined THEN register
                ELSE IF requireInvite THEN read(register, "requireInvite", requireInvite)
                ELSE read(read(register, "requireInvite", requireInvite),
                          "guestsRequireInvite", guestsRequireInvite)
         /\ body.invite # undefined => ~requireInvite
         /\ (body.invite # undefined \/ requireInvite) => ~guestsRequireInvite
         /\ checked("requireInvite",
                    IF /\ body.invite = undefined
                       /\ \/ requireInvite
                          \/ guestsRequireInvite /\ falsy(register.email)
                    THEN FieldErrors("email", "INVITE_ONLY") ELSE NoReply,
                    "register")
    /\ UNCHANGED <<body, security, awaited>>

\* step 13: const user = await User.register({ ...body, req })
UserRegister ==
    /\ pc = "register"
    /\ users' = Append(users, account(body))
    /\ user' = Len(users) + 1
    /\ pc' = "joinGuild"
    /\ UNCHANGED <<body, register, security, awaited, reply>>
    /\ UNCHANGED <<relVars, taskVars>>

\* JoinGuild with the account deleted again when the redemption fails
JoinGuildRollback ==
    /\ pc = "joinGuild"
    /\ \E joinGuild \in BOOLEAN :
         /\ awaited' = IF body.invite # undefined
                       THEN read(awaited, "joinGuild", joinGuild)
                       ELSE awaited
         /\ body.invite = undefined => joinGuild
         /\ reply' = IF joinGuild THEN token ELSE HTTPError("Unknown Invite")
         /\ users' = IF joinGuild THEN users ELSE SubSeq(users, 1, Len(users) - 1)
    /\ pc' = "done"
    /\ UNCHANGED <<body, register, security, user>>
    /\ UNCHANGED <<relVars, taskVars>>

\* if (body.invite) await Invite.joinGuild(user.id, body.invite), which rejects when the
\* invite cannot be redeemed; then res.json({ token })
JoinGuild ==
    /\ pc = "joinGuild"
    /\ \E joinGuild \in BOOLEAN :
         /\ awaited' = IF body.invite # undefined
                       THEN read(awaited, "joinGuild", joinGuild)
                       ELSE awaited
         /\ body.invite = undefined => joinGuild
         /\ reply' = IF joinGuild THEN token ELSE HTTPError("Unknown Invite")
    /\ pc' = "done"
    /\ UNCHANGED <<users, body, register, security, user>>
    /\ UNCHANGED <<relVars, taskVars>>

NextRegister ==
    \/ Receive
    \/ AllowNewRegistration
    \/ Consent
    \/ Disabled
    \/ AllowGuests
    \/ RequireCaptcha
    \/ AllowMultipleAccounts
    \/ BlockProxies
    \/ Email
    \/ DateOfBirth
    \/ Password
    \/ RequireInvite
    \/ UserRegister
    \/ JoinGuild

SpecRegister == Init /\ [][NextRegister]_vars


(***************************************************************************)
(* SpecRace, SpecCap: requests handled concurrently.                       *)
(*                                                                         *)
(* Every request is its own task. A handler loads the rows of the caller   *)
(* and of the target, decides on what it loaded, and then awaits a save or *)
(* a delete per row; the rows of other tasks are loaded, saved and deleted *)
(* in between.                                                             *)
(***************************************************************************)

\* requests that arrive in a run of SpecRace
MaxTasks == 3

\* a request: the handler it is routed to, the caller and the target
Requests ==
    {r \in [handler : {"friend", "block", "delete"}, user_id : Users, id : Users] :
        r.user_id # r.id}

\* the rows a handler saves or deletes, in the order of its statements: the block
\* branch saves the caller's row and then deletes the target's, the other handlers
\* start with the target's row
statements(handler, user_id, id) ==
    IF handler = "block"
    THEN << <<user_id, id>>, <<id, user_id>> >>
    ELSE << <<id, user_id>>, <<user_id, id>> >>

\* rowWrites with router.delete ending after its first delete
rowWritesInterrupted(handler, view, user_id, id) ==
    LET outcome == Outcome(handler, view, user_id, id)
        changed(row) == outcome.relationships[row] # view[row]
        write(row) == [from_id |-> row[1], to_id |-> row[2],
                       type |-> outcome.relationships[row]]
        rows == SelectSeq(statements(handler, user_id, id), changed)
    IN  [i \in 1..(IF handler = "delete" /\ Len(rows) = 2 THEN 1 ELSE Len(rows)) |->
            write(rows[i])]

\* the save() and delete() calls of a handler that decided on the rows in view: one
\* per row the handler changes, a delete carrying no type
rowWrites(handler, view, user_id, id) ==
    LET outcome == Outcome(handler, view, user_id, id)
        changed(row) == outcome.relationships[row] # view[row]
        write(row) == [from_id |-> row[1], to_id |-> row[2],
                       type |-> outcome.relationships[row]]
        rows == SelectSeq(statements(handler, user_id, id), changed)
    IN  [i \in 1..Len(rows) |-> write(rows[i])]

\* the orders in which the calls reach the table: the two saves of a friend request
\* are started together in Promise.all, the other handlers await each call in turn
arrivals(handler, calls) ==
    IF handler = "friend" /\ Len(calls) = 2
    THEN {calls, <<calls[2], calls[1]>>}
    ELSE {calls}

\* some task has loaded its rows and not finished its calls
inFlight == \E r \in DOMAIN tasks : tasks[r].todo # <<>>

\* a request starts: the handler loads the rows, throws or decides its calls
Load ==
    \E r \in inbox :
        LET outcome == Outcome(r.handler, relationships, r.user_id, r.id)
        IN  \E todo \in arrivals(r.handler,
                                 rowWrites(r.handler, relationships, r.user_id, r.id)) :
                /\ inbox' = inbox \ {r}
                /\ tasks' = (r :> [todo |-> todo, status |-> outcome.status,
                                   alone |-> ~inFlight])
                            @@ [t \in DOMAIN tasks |->
                                   [tasks[t] EXCEPT !.alone = @ /\ tasks[t].todo = <<>>]]
                /\ UNCHANGED <<relationships, response, events, writes, served>>
                /\ UNCHANGED regVars

\* an awaited save() or delete() of a task reaches the table
Await ==
    \E r \in DOMAIN tasks :
        /\ tasks[r].todo # <<>>
        /\ LET call == Head(tasks[r].todo)
           IN  relationships' =
                   IF call.type = undefined
                   THEN delete(relationships, call.from_id, call.to_id)
                   ELSE save(relationships, call.from_id, call.to_id, call.type)
        /\ tasks' = [tasks EXCEPT ![r].todo = Tail(@)]
        /\ UNCHANGED <<inbox, response, events, writes, served>>
        /\ UNCHANGED regVars

NextTasks == Load \/ Await

\* the sets of at most n requests
RECURSIVE upTo(_)
upTo(n) ==
    IF n = 0 THEN {{}}
    ELSE LET fewer == upTo(n - 1)
         IN  fewer \cup {some \cup {r} : some \in fewer, r \in Requests}

\* SpecRace: any requests, at most MaxTasks of them, arrive at the empty table
InitRace ==
    /\ relationships = EmptyStore
    /\ response = NoResponse
    /\ events = <<>>
    /\ writes = 0
    /\ served = 0
    /\ InitRegister
    /\ inbox \in upTo(MaxTasks)
    /\ tasks = NoTasks

SpecRace == InitRace /\ [][NextTasks]_vars

\* the user whose friend requests run concurrently in SpecCap
initiator == "u1"

\* SpecCap: the friend requests of one user to every other user, and the friend
\* request of every other user to that user, arrive at the empty table
InitCap ==
    /\ relationships = EmptyStore
    /\ response = NoResponse
    /\ events = <<>>
    /\ writes = 0
    /\ served = 0
    /\ InitRegister
    /\ inbox = {r \in Requests : r.handler = "friend" /\ initiator \in {r.user_id, r.id}}
    /\ tasks = NoTasks

SpecCap == InitCap /\ [][NextTasks]_vars

(***************************************************************************)
(* Properties                                                              *)
(***************************************************************************)

\* the number of friends rows a user owns
friendsCount(rels, from) == Cardinality({to \in Users : rels[<<from, to>>] = "friends"})

\* the step just taken served this request
Served(handler, user_id, id) ==
    /\ response'.handler = handler
    /\ response'.user_id = user_id
    /\ response'.id = id

\* a request by a to b, neither owning any row: both rows are created
C1First(a, b) ==
    (/\ Served("friend", a, b)
     /\ length(relationships, a) = 0
     /\ length(relationships, b) = 0)
    => /\ response'.status = NO_CONTENT
       /\ relationships' = save(save(relationships, a, b, "outgoing"), b, a, "incoming")

\* the request by b to a that follows it: both rows become friends
C1Second(a, b) ==
    (/\ response = [handler |-> "friend", user_id |-> a, id |-> b, status |-> NO_CONTENT]
     /\ find(relationships, a, b) = "outgoing"
     /\ find(relationships, b, a) = "incoming"
     /\ length(relationships, a) = 1
     /\ length(relationships, b) = 1
     /\ Served("friend", b, a))
    => /\ response'.status = NO_CONTENT
       /\ relationships' = save(save(relationships, a, b, "friends"), b, a, "friends")

C2_FriendsSymmetric ==
    \A a \in Users, b \in Users :
        find(relationships, a, b) = "friends" <=> find(relationships, b, a) = "friends"

\* two users are friends of each other, one of them having a second relationship
C2_Witness ==
    \E a \in Users, b \in Users, c \in Users :
        /\ find(relationships, a, b) = "friends"
        /\ find(relationships, b, a) = "friends"
        /\ find(relationships, a, c) = "blocked"

\* C3 (I2): while a owns a blocked row toward b, b owns no outgoing, incoming or
\* friends row toward a, whatever handlers have run since the block.
C3_BlockedHidesTarget ==
    \A a \in Users, b \in Users :
        find(relationships, a, b) = "blocked"
            => find(relationships, b, a) \in {undefined, "blocked"}

\* a blocked b, who has no row toward a and is the friend of a friend of a
C3_Witness ==
    \E a \in Users, b \in Users, c \in Users :
        /\ find(relationships, a, b) = "blocked"
        /\ find(relationships, b, a) = undefined
        /\ find(relationships, b, c) = "friends"
        /\ find(relationships, a, c) = "friends"

\* C4 (I3): no user owns more than maxFriends friends rows, those created on the
\* target's side by another user's acceptance included.
C4_FriendsCapped ==
    \A a \in Users : friendsCount(relationships, a) <= maxFriends

\* a user at the cap whose second friendship was accepted by the other side
C4_Witness ==
    \E a \in Users :
        /\ friendsCount(relationships, a) = maxFriends
        /\ \E b \in Users : find(relationships, b, a) = "outgoing"

\* C5: a handler that answers an error leaves the table as it was, emits no event
\* and has saved or deleted no row.
C5_FailureChangesNothing ==
    [][response'.status # NO_CONTENT
         => /\ relationships' = relationships
            /\ events' = <<>>
            /\ writes' = 0]_vars

\* a request to an existing pending pair was refused: the caller had already sent it
C5_Witness ==
    /\ response.handler = "friend"
    /\ response.status = ALREADY_SENT
    /\ find(relationships, response.user_id, response.id) = "outgoing"
    /\ find(relationships, response.id, response.user_id) = "incoming"
    /\ events = <<>>
    /\ writes = 0

\* C6: block(a,b) for distinct a and b answers 204 and leaves a's row blocked from
\* every combination of the two rows in which a's row is not blocked, however many
\* rows a owns; it fails, with ALREADY_BLOCKED, exactly when a's row is blocked.
C6_BlockAlwaysSucceeds ==
    [][\A a \in Users : \A b \in Users \ {a} :
         Served("block", a, b)
           => IF find(relationships, a, b) = "blocked"
              THEN response'.status = ALREADY_BLOCKED
              ELSE /\ response'.status = NO_CONTENT
                   /\ find(relationships', a, b) = "blocked"]_vars

\* a block succeeded for a caller who owns more than maxFriends rows, against a
\* target that had blocked the caller
C6_Witness ==
    /\ response.handler = "block"
    /\ response.status = NO_CONTENT
    /\ length(relationships, response.user_id) > maxFriends
    /\ find(relationships, response.user_id, response.id) = "blocked"
    /\ find(relationships, response.id, response.user_id) = "blocked"

\* the events a successful block(a,b) is to emit when b's row toward a is theirs
C7Events(a, b, theirs) ==
    IF theirs \in {"outgoing", "incoming", "friends"}
    THEN <<emitEvent("RELATIONSHIP_REMOVE", b, toPublicRelationship(b, a, theirs), FALSE),
           emitEvent("RELATIONSHIP_ADD", a, toPublicRelationship(a, b, "blocked"), FALSE)>>
    ELSE <<emitEvent("RELATIONSHIP_ADD", a, toPublicRelationship(a, b, "blocked"), FALSE)>>

\* C7: a successful block(a,b) deletes b's row toward a when it is an outgoing,
\* incoming or friends row and emits one RELATIONSHIP_REMOVE to b for that row and
\* one RELATIONSHIP_ADD of type blocked to a; when b has no row or a blocked row it
\* leaves b's row as it is and emits the RELATIONSHIP_ADD to a only.
C7_BlockPrunesAndNotifies ==
    [][\A a \in Users : \A b \in Users \ {a} :
         (Served("block", a, b) /\ response'.status = NO_CONTENT)
           => LET theirs == find(relationships, b, a)
              IN  /\ events' = C7Events(a, b, theirs)
                  /\ find(relationships', b, a) =
                        IF theirs \in {"outgoing", "incoming", "friends"}
                        THEN undefined ELSE theirs]_vars

\* a block has deleted the target's outgoing request and told the target
C7_Witness ==
    /\ response.handler = "block"
    /\ response.status = NO_CONTENT
    /\ Len(events) = 2
    /\ events[1].event = "RELATIONSHIP_REMOVE"
    /\ events[1].user_id = response.id
    /\ events[1].data.type = "outgoing"
    /\ find(relationships, response.id, response.user_id) = undefined

\* the row matching a friends, outgoing or incoming row on the other side
Matching(type) ==
    CASE type = "friends" -> "friends"
      [] type = "outgoing" -> "incoming"
      [] type = "incoming" -> "outgoing"
      [] OTHER -> undefined

\* the events of a sequence that are addressed to a user
EventsTo(seq, user_id) == {i \in 1..Len(seq) : seq[i].user_id = user_id}

\* C8: remove(a,b) when a owns a friends, outgoing or incoming row toward b and b the
\* matching row answers 204, deletes both rows and no other, and emits exactly one
\* RELATIONSHIP_REMOVE to a and exactly one to b, each for the receiver's own row.
C8_RemoveDeletesBoth ==
    [][\A a \in Users : \A b \in Users \ {a} :
         LET mine == find(relationships, a, b)
             theirs == find(relationships, b, a)
         IN  (/\ Served("delete", a, b)
              /\ mine \in {"friends", "outgoing", "incoming"}
              /\ theirs = Matching(mine))
               => /\ response'.status = NO_CONTENT
                  /\ relationships' = delete(delete(relationships, a, b), b, a)
                  /\ Len(events') = 2
                  /\ \E i \in 1..2 :
                       events'[i] = emitEvent("RELATIONSHIP_REMOVE", a,
                                              toPublicRelationship(a, b, mine), FALSE)
                  /\ \E i \in 1..2 :
                       events'[i] = emitEvent("RELATIONSHIP_REMOVE", b,
                                              toPublicRelationship(b, a, theirs), FALSE)]_vars

\* a pending request was withdrawn by its sender: both rows are gone, both were told
C8_Witness ==
    /\ response.handler = "delete"
    /\ response.status = NO_CONTENT
    /\ Len(events) = 2
    /\ Cardinality(EventsTo(events, response.user_id)) = 1
    /\ Cardinality(EventsTo(events, response.id)) = 1
    /\ \E i \in 1..2 : events[i].user_id = response.user_id /\ events[i].data.type = "outgoing"
    /\ find(relationships, response.user_id, response.id) = undefined
    /\ find(relationships, response.id, response.user_id) = undefined

\* C9: a successful requestOrAccept(a,b) emits exactly two RELATIONSHIP_ADD events:
\* one to a for a's row toward b, one to b, with should_notify, for b's row toward a,
\* each with the type the table holds for that row after the handler.
C9_AddEventsOwnEdge ==
    [][\A a \in Users : \A b \in Users \ {a} :
         (Served("friend", a, b) /\ response'.status = NO_CONTENT)
           => /\ Len(events') = 2
              /\ \E i \in 1..2 :
                   events'[i] = emitEvent("RELATIONSHIP_ADD", a,
                       toPublicRelationship(a, b, find(relationships', a, b)), FALSE)
              /\ \E i \in 1..2 :
                   events'[i] = emitEvent("RELATIONSHIP_ADD", b,
                       toPublicRelationship(b, a, find(relationships', b, a)), TRUE)]_vars

\* a first request was served: the sender was sent its outgoing row, the target its
\* incoming row
C9_Witness ==
    /\ response.handler = "friend"
    /\ response.status = NO_CONTENT
    /\ Len(events) = 2
    /\ events[1].user_id = response.user_id
    /\ events[1].data.type = "outgoing"
    /\ events[2].user_id = response.id
    /\ events[2].data.type = "incoming"
    /\ events[2].should_notify

\* C10: a requestOrAccept by a caller who owns fewer than maxFriends friends rows is
\* never answered MAXIMUM_FRIENDS, whatever other rows the caller owns.
C10_CapCountsFriendsOnly ==
    [][\A a \in Users :
         (/\ response'.handler = "friend"
          /\ response'.user_id = a
          /\ response'.id # a
          /\ friendsCount(relationships, a) < maxFriends)
           => response'.status # MAXIMUM_FRIENDS]_vars

\* C11: a rejected emitEvent never makes requestOrAccept, block or remove fail: the
\* request is answered as it is when every event is published, and every save and
\* delete of the transition is carried out.
C11_PublishFailureSwallowed ==
    [][\A handler \in {"friend", "block", "delete"} : \A a \in Users, b \in Users :
         Served(handler, a, b)
           => LET outcome == Outcome(handler, relationships, a, b)
              IN  /\ response'.status = outcome.status
                  /\ relationships' = outcome.relationships]_vars

\* C12: remove(a,b) when a owns a blocked row toward b answers 204, deletes a's row
\* and no other, so that every row b owns, a blocked row toward a included, stays as
\* it is, and emits one RELATIONSHIP_REMOVE, to a, and nothing to b.
C12_UnblockOwnRowOnly ==
    [][\A a \in Users : \A b \in Users \ {a} :
         (Served("delete", a, b) /\ find(relationships, a, b) = "blocked")
           => /\ response'.status = NO_CONTENT
              /\ relationships' = delete(relationships, a, b)
              /\ events' = <<emitEvent("RELATIONSHIP_REMOVE", a,
                                       toPublicRelationship(a, b, "blocked"), FALSE)>>]_vars

\* a user unblocked a user who keeps blocking them: one event, to the caller
C12_Witness ==
    /\ response.handler = "delete"
    /\ response.status = NO_CONTENT
    /\ Len(events) = 1
    /\ events[1].user_id = response.user_id
    /\ events[1].data.type = "blocked"
    /\ find(relationships, response.user_id, response.id) = undefined
    /\ find(relationships, response.id, response.user_id) = "blocked"

tested(settings, key) == key \in DOMAIN settings

\* check k of the pipeline has been evaluated and lets the registration through.
\* Check 4 concerns passwordless registrations only and check 12 demands an invite
\* outright or of a registration without email; the other checks are as router.post
\* evaluates them.
passes(k) ==
    CASE k = 1 -> tested(register, "allowNewRegistration") /\ register.allowNewRegistration
      [] k = 2 -> body.consent
      [] k = 3 -> tested(register, "disabled") /\ ~register.disabled
      [] k = 4 -> \/ body.password # undefined
                  \/ tested(register, "allowGuests") /\ register.allowGuests
      [] k = 5 -> /\ tested(register, "requireCaptcha")
                  /\ \/ ~register.requireCaptcha
                     \/ /\ tested(security, "captcha")
                        /\ \/ ~security.captcha.enabled
                           \/ /\ body.captcha_key # undefined
                              /\ tested(awaited, "verifyCaptcha")
                              /\ awaited.verifyCaptcha.success
      [] k = 6 -> /\ tested(register, "allowMultipleAccounts")
                  /\ \/ register.allowMultipleAccounts
                     \/ ~findOneFingerprint(SubSeq(users, 1, Len(users) - (IF user = 0 THEN 0 ELSE 1)),
                                            body.fingerprint)
      [] k = 7 -> /\ tested(register, "blockProxies")
                  /\ \/ ~register.blockProxies
                     \/ tested(awaited, "isProxy") /\ ~awaited.isProxy
      [] k = 8 -> \/ body.email = undefined
                  \/ ~findOneEmail(SubSeq(users, 1, Len(users) - (IF user = 0 THEN 0 ELSE 1)),
                                   adjustEmail(body.email))
      [] k = 9 -> \/ body.email # undefined
                  \/ tested(register, "email") /\ ~register.email.required
      [] k = 10 -> /\ tested(register, "dateOfBirth")
                   /\ \/ ~register.dateOfBirth.required
                      \/ /\ body.date_of_birth # undefined \/ body.password = undefined
                         /\ \/ register.dateOfBirth.minimum = 0
                            \/ ~younger(Date(body.date_of_birth),
                                        setFullYear(today, register.dateOfBirth.minimum))
      [] k = 11 -> \/ body.password # undefined
                   \/ tested(register, "password") /\ ~register.password.required
      [] k = 12 -> \/ body.invite # undefined
                   \/ /\ tested(register, "requireInvite")
                      /\ ~register.requireInvite
                      /\ tested(register, "guestsRequireInvite")
                      /\ ~(register.guestsRequireInvite /\ body.email = undefined)

\* what check k answers when it fails
errors(k) ==
    CASE k = 1 -> {FieldErrors("email", "REGISTRATION_DISABLED")}
      [] k = 2 -> {FieldErrors("consent", "CONSENT_REQUIRED")}
      [] k = 3 -> {FieldErrors("email", "DISABLED")}
      [] k = 4 -> {FieldErrors("email", "GUESTS_DISABLED")}
      [] k = 5 -> {captchaChallenge("captcha-required"), captchaChallenge("error-codes")}
      [] k = 6 -> {FieldErrors("email", "EMAIL_ALREADY_REGISTERED")}
      [] k = 7 -> {HTTPError("Your IP is blocked from registration")}
      [] k = 8 -> {FieldErrors("email", "EMAIL_ALREADY_REGISTERED")}
      [] k = 9 -> {FieldErrors("email", "BASE_TYPE_REQUIRED")}
      [] k = 10 -> {FieldErrors("date_of_birth", "BASE_TYPE_REQUIRED"),
                    FieldErrors("date_of_birth", "DATE_OF_BIRTH_UNDERAGE")}
      [] k = 11 -> {FieldErrors("password", "BASE_TYPE_REQUIRED")}
      [] k = 12 -> {FieldErrors("email", "INVITE_ONLY")}

\* the first check that does not let the registration through; 13 when all twelve do
firstFailing ==
    IF \A k \in 1..12 : passes(k) THEN 13
    ELSE CHOOSE k \in 1..12 : ~passes(k) /\ \A i \in 1..(k - 1) : passes(i)

\* C14: a registration that has been answered was answered with the error of the first
\* failing check in the order 1..12 and with no other, an account was created only when
\* all twelve checks pass, and with registration enabled a payload without consent is
\* answered with the field error on consent.
C14_FirstFailingCheckReported ==
    pc = "done" =>
        /\ firstFailing <= 12 => reply \in errors(firstFailing)
        /\ firstFailing = 13 => reply \notin UNION {errors(k) : k \in 1..12}
        /\ user # 0 => firstFailing = 13
        /\ (passes(1) /\ ~body.consent) => reply = FieldErrors("consent", "CONSENT_REQUIRED")

\* C15: when the checks have passed, the account has been created and the redemption
\* of the invite then fails, the registration is answered with an error and no token,
\* and the account it created is still in the directory.
C15_InviteFailureKeepsAccount ==
    (pc = "done" /\ tested(awaited, "joinGuild") /\ ~awaited.joinGuild)
        => /\ reply.kind = "HTTPError"
           /\ reply # token
           /\ user \in 1..Len(users)
           /\ users[user] = account(body)

\* a registration with an invite whose redemption failed after the account was created
C15_Witness ==
    /\ pc = "done"
    /\ body.invite = "invite"
    /\ tested(awaited, "joinGuild") /\ ~awaited.joinGuild
    /\ reply = HTTPError("Unknown Invite")
    /\ Len(users) = 1
    /\ user = 1

\* check 12 has been evaluated: the handler is about to create the account, or has
\* answered INVITE_ONLY
inviteChecked == pc = "register" \/ reply = FieldErrors("email", "INVITE_ONLY")

\* C16: a registration that reaches check 12 is answered INVITE_ONLY exactly when it
\* carries no invite and either requireInvite is set, or guestsRequireInvite is set and
\* it supplied no email.
C16_InviteOnlyWhenDemanded ==
    inviteChecked =>
        (reply = FieldErrors("email", "INVITE_ONLY")
            <=> /\ body.invite = undefined
                /\ \/ register.requireInvite
                   \/ register.guestsRequireInvite /\ body.email = undefined)

\* check 4 has been evaluated: the handler is at the captcha check, or has answered
\* GUESTS_DISABLED
guestsChecked == pc = "requireCaptcha" \/ reply = FieldErrors("email", "GUESTS_DISABLED")

\* C17: a registration that reaches check 4 is answered GUESTS_DISABLED exactly when
\* allowGuests is off and it supplies no password; with a password it goes on to the
\* later checks.
C17_GuestsOnlyPasswordless ==
    guestsChecked =>
        (reply = FieldErrors("email", "GUESTS_DISABLED")
            <=> ~register.allowGuests /\ body.password = undefined)

(***************************************************************************)
(* Concurrent requests: SpecRace, SpecCap.                                 *)
(***************************************************************************)

\* a user holds a friends row toward a user who holds none toward them
halfFriends(rels) ==
    \E a \in Users, b \in Users :
        find(rels, a, b) = "friends" /\ find(rels, b, a) # "friends"

\* C18: the load of the two rows of a pair, the decision and the two row writes of a
\* handler are not one atomic step. When no task is in flight, the table holds a
\* friends row without its counterpart only if some handler ran while another was
\* between its load and its last write; C18_Witness is such a state, reached by an
\* acceptance overlapping a remove or a block of the requester.
C18_HalfFriendsOnlyByOverlap ==
    (~inFlight /\ \A r \in DOMAIN tasks : tasks[r].alone) => ~halfFriends(relationships)

\* a's request to b was handled alone, then b accepted it while a removed or blocked b,
\* both were answered 204, and a
\* is left holding friends toward b while b holds no row toward a
C18_Witness ==
    /\ ~inFlight
    /\ \E a \in Users, b \in Users :
         LET request == [handler |-> "friend", user_id |-> a, id |-> b]
             accept == [handler |-> "friend", user_id |-> b, id |-> a]
         IN  /\ request \in DOMAIN tasks
             /\ tasks[request].alone
             /\ accept \in DOMAIN tasks
             /\ tasks[accept].status = NO_CONTENT
             /\ \E other \in {[handler |-> "delete", user_id |-> a, id |-> b],
                              [handler |-> "block", user_id |-> a, id |-> b]} :
                    /\ other \in DOMAIN tasks
                    /\ tasks[other].status = NO_CONTENT
             /\ find(relationships, a, b) = "friends"
             /\ find(relationships, b, a) = undefined

\* C19 (I3 under concurrency): once every friend request of the initiator and every
\* acceptance has been handled, the initiator owns at most maxFriends friends rows.
C19_CapUnderConcurrency ==
    (inbox = {} /\ ~inFlight) => friendsCount(relationships, initiator) <= maxFriends

(***************************************************************************)
(* The rows of a pair: SpecStore.                                          *)
(***************************************************************************)

\* the rows two users can hold toward each other: none, a pending request, a
\* friendship, a block of one side, a block of both
pairStates ==
    {<<undefined, undefined>>, <<"outgoing", "incoming">>, <<"incoming", "outgoing">>,
     <<"friends", "friends">>, <<"blocked", undefined>>, <<undefined, "blocked">>,
     <<"blocked", "blocked">>}

\* C20: with handlers run one at a time from the empty table, a holds an outgoing row
\* toward b exactly when b holds an incoming row toward a, no user holds a row toward
\* itself, and the two rows of every pair are one of pairStates.
C20_RequestsPaired ==
    \A a \in Users :
        /\ find(relationships, a, a) = undefined
        /\ \A b \in Users \ {a} :
             /\ find(relationships, a, b) = "outgoing" <=> find(relationships, b, a) = "incoming"
             /\ <<find(relationships, a, b), find(relationships, b, a)>> \in pairStates

\* a pending request between two users next to a pair that blocked each other
C20_Witness ==
    \E a \in Users, b \in Users, c \in Users :
        /\ find(relationships, a, b) = "outgoing"
        /\ find(relationships, b, a) = "incoming"
        /\ find(relationships, a, c) = "blocked"
        /\ find(relationships, c, a) = "blocked"

====
